---- MODULE Spec2Model ----
(***************************************************************************)
(* A model of the transport data-access layer of abipy: RtaFile, RtaReader *)
(* and RtaRobot of abipy/eph/rta.py, and of BenchmarkFlow and bench_main   *)
(* of abipy/benchmarks/__init__.py, and of the variable database of        *)
(* abipy/lessons/lesson_helper_functions.py.  Each group of objects has    *)
(* its own specification: Spec and SpecPair (one and two RtaFile objects), *)
(* SpecRobot, SpecFlow, SpecBench and SpecLessons.                         *)
(*                                                                         *)
(* Floating-point numbers are modelled as fixed-point integers (a value v  *)
(* stands for v / Fx), arrays as functions over 0-based index tuples,      *)
(* Python's None as the empty sequence and a present value v as <<v>>.     *)
(* A call either returns a value, Ok(v), or raises, Err(kind).             *)
(***************************************************************************)
EXTENDS Integers, Sequences, FiniteSets, TLC

\* ------------------------------------------------------------------ bounds

\* The query potentials ef offered to get_mobility_mu are StepEf * k for
\* k in -2 .. MaxEf.
MaxEf == 6

\* Index arguments (irta, spin, eh, itemp) are drawn from -MaxIdx - 1 .. MaxIdx.
MaxIdx == 2

\* At most MaxObjs ElectronBands and parameter objects are allocated.
MaxObjs == 4

\* ------------------------------------------------------------- basic values

None == <<>>

Some(v) == <<v>>

Ok(v) == [kind |-> "ok", val |-> v]

Err(kind) == [kind |-> kind, val |-> None]

IsOk(r) == r.kind = "ok"

\* A Python sequence (0-based) from a TLA+ tuple.
Arr(s) == [k \in 0 .. Len(s) - 1 |-> s[k + 1]]

ALen(a) == Cardinality(DOMAIN a)

\* Fixed-point scale of the modelled floating-point values.
Fx == 10 * 10 * 10

FMul(a, b) == (a * b) \div Fx

FDiv(a, b) == (a * Fx) \div b

\* abu.Ha_to_eV = 27.211..., as the multiplication x * abu.Ha_to_eV.
Ha_to_eV(x) == (x * 27211) \div Fx

\* abu.kb_HaK = 3.1668e-6 Ha/K, as the division x / abu.kb_HaK of a value x
\* held in micro-Hartree.
DivKb(x) == (x * Fx) \div 3167

\* Element-wise conversions of an array.
ArrHaToEV(a) == [k \in DOMAIN a |-> Ha_to_eV(a[k])]

ArrDivKb(a) == [k \in DOMAIN a |-> DivKb(a[k])]

\* abu.s2itup: the two axis indices of a component label such as "xy",
\* held as the pair of its characters.
AxisIndex(c) == CASE c = "x" -> 0 [] c = "y" -> 1 [] c = "z" -> 2

s2itup(component) == <<AxisIndex(component[1]), AxisIndex(component[2])>>

\* ------------------------------------------------------- the files on disk

\* The dimensions and arrays RtaFile.__init__ and RtaReader.__init__ read.
RequiredNames ==
    {"nrta", "vb_max", "cb_min", "edos_intmeth", "edos_broad", "edos_mesh",
     "nsppol", "kTmesh"}

\* The 7-axis array 'mobility' of a file with the given dimensions:
\* [nrta, nsppol, two, ntemp, three, three, edos_nw].  Every entry differs
\* from every other one, so a slice identifies the indices it was taken at.
MobilityIndex(nrta, nsppol, ntemp, nw) ==
    (0 .. nrta - 1) \X (0 .. nsppol - 1) \X (0 .. 1) \X (0 .. ntemp - 1)
        \X (0 .. 2) \X (0 .. 2) \X (0 .. nw - 1)

MobilityData(nrta, nsppol, ntemp, nw, seed) ==
    [t \in MobilityIndex(nrta, nsppol, ntemp, nw) |->
        LET lin == (((((t[1] * nsppol + t[2]) * 2 + t[3]) * ntemp + t[4]) * 3
                        + t[5]) * 3 + t[6]) * nw + t[7]
        IN  seed + 37 * lin + ((lin * lin) % 11)]

\* The content of a well-formed RTA.nc file.
Dataset(nsppol, ktmesh, emesh, mu_e, seed) ==
    [nrta           |-> 2,
     nsppol         |-> nsppol,
     kTmesh         |-> Arr(ktmesh),
     edos_mesh      |-> Arr(emesh),
     vb_max         |-> [s \in 0 .. nsppol - 1 |-> 120 + s],
     cb_min         |-> [s \in 0 .. nsppol - 1 |-> 180 + s],
     edos_intmeth   |-> 2,
     edos_broad     |-> 3,
     transport_mu_e |-> Arr(mu_e),
     mobility       |-> MobilityData(2, nsppol, Len(ktmesh), Len(emesh), seed)]

DataA == Dataset(1, <<317, 950>>, <<100, 200, 500>>, <<150, 650>>, 5)

DataB == Dataset(2, <<317, 633>>, <<-100, 300>>, <<-100, 100>>, 9000)

\* A file on disk: whether the path exists, which names its schema lacks,
\* and what it stores.
OnDisk(exists, absent, vars) == [exists |-> exists, absent |-> absent, vars |-> vars]

BrokenPaths == {<<"broken", n>> : n \in RequiredNames}

Paths == {<<"missing", "">>, <<"good", "A">>, <<"good", "B">>} \cup BrokenPaths

Disk ==
    [p \in Paths |->
        CASE p[1] = "missing" -> OnDisk(FALSE, {}, DataA)
          [] p[1] = "broken"  -> OnDisk(TRUE, {p[2]}, DataA)
          [] p = <<"good", "A">> -> OnDisk(TRUE, {}, DataA)
          [] OTHER -> OnDisk(TRUE, {}, DataB)]

\* --------------------------------------------------------------------- state

\* The RtaFile objects of the program.
Files == {1}

VARIABLES
    rtafile,    \* rtafile[f]: the attributes of RtaFile object f
    reader,     \* reader[f]: the RtaReader of f and its file handle
    call,       \* the last call made: object, operation, arguments, result
    nobjs,      \* the number of objects allocated by read_ebands and params
    abifiles,   \* the (label, file) items of an RtaRobot, in insertion order
    conv,       \* the last plot_mobility_conv call: arguments, list, outcome
    flow,       \* a BenchmarkFlow: the status of its tasks, its exclusion set
    fcall,      \* the last call made on the flow
    bench,      \* a run of the wrapper bench_main returns
    lessons     \* the module of the lessons helpers: its global, its objects

\* The variables of the RtaFile objects and those of the other objects.
rtavars == <<rtafile, reader, call, nobjs>>

robotvars == <<abifiles, conv>>

flowvars == <<flow, fcall>>

others == <<robotvars, flowvars, bench, lessons>>

vars == <<rtavars, others>>

\* An RtaFile that was not constructed yet.
NoFile == [state |-> "new"]

NoReader == [handle |-> "none"]

Call(f, op, args, res) == [file |-> f, op |-> op, args |-> args, res |-> res]

\* No RtaFile was constructed yet.
RtaInit ==
    /\ rtafile = [f \in Files |-> NoFile]
    /\ reader = [f \in Files |-> NoReader]
    /\ call = Call(0, "none", <<>>, Ok(None))
    /\ nobjs = 0

\* A robot without members on which nothing was called.
NoConv == [op |-> "none"]

RobotIdle ==
    /\ abifiles = <<>>
    /\ conv = NoConv

\* No flow was built.
NoFlowCall == [op |-> "none"]

FlowIdle ==
    /\ flow = [status |-> <<>>, exclude |-> None]
    /\ fcall = NoFlowCall

\* No benchmark script was started.
BenchIdle == bench = [pc |-> "off"]

\* The lessons helpers were not imported.
LessonsIdle == lessons = [state |-> "off"]

Init ==
    /\ RtaInit
    /\ RobotIdle
    /\ FlowIdle
    /\ BenchIdle
    /\ LessonsIdle

\* ------------------------------------------------------------- the reader

\* ETSF_Reader.read_dimvalue / read_value / read_variable on reader rd: the
\* stored value of `name`, in the file's native units.
read_value(rd, name) ==
    IF rd.handle # "open" THEN Err("ClosedError")
    ELSE IF name \in Disk[rd.path].absent THEN Err("SchemaError")
    ELSE Ok(Disk[rd.path].vars[name])

\* The first name of the sequence `names` that cannot be read from the file
\* at path p, or None.
FirstAbsent(p, names) ==
    LET bad == {k \in 1 .. Len(names) : names[k] \in Disk[p].absent}
    IN  IF bad = {} THEN None
        ELSE Some(names[CHOOSE k \in bad : \A m \in bad : k <= m])

\* A reader that keeps kTmesh as stored, in Hartree.
RtaReader_init_StoredKT(p) ==
    IF ~Disk[p].exists
    THEN [rd |-> NoReader, res |-> Err("NotFoundError")]
    ELSE IF FirstAbsent(p, <<"nsppol", "kTmesh">>) # None
    THEN [rd |-> [handle |-> "open", path |-> p], res |-> Err("SchemaError")]
    ELSE [rd |-> [handle |-> "open", path |-> p,
                  nsppol |-> Disk[p].vars.nsppol,
                  tmesh |-> Disk[p].vars.kTmesh],
          res |-> Ok(None)]

\* RtaReader.__init__: the base class opens the file, then nsppol and kTmesh
\* are read.  The result is the reader (with its handle) and the outcome.
RtaReader_init(p) ==
    IF ~Disk[p].exists
    THEN [rd |-> NoReader, res |-> Err("NotFoundError")]
    ELSE IF FirstAbsent(p, <<"nsppol", "kTmesh">>) # None
    THEN [rd |-> [handle |-> "open", path |-> p], res |-> Err("SchemaError")]
    ELSE [rd |-> [handle |-> "open", path |-> p,
                  nsppol |-> Disk[p].vars.nsppol,
                  tmesh |-> ArrDivKb(Disk[p].vars.kTmesh)],
          res |-> Ok(None)]

\* RtaFile.__init__ past the construction of the reader: the attributes read.
RtaFile_attrs(p) ==
    [state         |-> "live",
     filepath      |-> p,
     nrta          |-> Disk[p].vars.nrta,
     vb_max_spin   |-> ArrHaToEV(Disk[p].vars.vb_max),
     cb_min_spin   |-> ArrHaToEV(Disk[p].vars.cb_min),
     edos_intmeth  |-> Disk[p].vars.edos_intmeth,
     edos_broad_eV |-> Ha_to_eV(Disk[p].vars.edos_broad),
     edos_mesh_eV  |-> ArrHaToEV(Disk[p].vars.edos_mesh),
     ebands        |-> None,
     params        |-> None]

\* RtaFile(filepath): RtaFile.__init__.
RtaFile_init(f, p) ==
    /\ call.op = "none"
    /\ rtafile[f].state = "new"
    /\ LET r == RtaReader_init(p)
           absent == FirstAbsent(p, <<"nrta", "vb_max", "cb_min", "edos_intmeth",
                                      "edos_broad", "edos_mesh">>)
           res == IF ~IsOk(r.res) THEN r.res
                  ELSE IF absent # None THEN Err("SchemaError")
                  ELSE Ok(None)
       IN  /\ reader' = [reader EXCEPT ![f] = r.rd]
           /\ rtafile' = [rtafile EXCEPT ![f] =
                            IF IsOk(res) THEN RtaFile_attrs(p)
                            ELSE [state |-> "failed"]]
           /\ call' = Call(f, "__init__", <<p>>, res)
    /\ UNCHANGED <<nobjs, others>>

\* ETSF_Reader.close: closes the handle; closing a closed handle is swallowed.
reader_close(rd) == [rd EXCEPT !.handle = "closed"]

\* close that leaves the reader alone.
close_KeepsReader(f) ==
    /\ call.op = "none"
    /\ rtafile[f].state = "live"
    /\ call' = Call(f, "close", <<reader[f].handle>>, Ok(None))
    /\ UNCHANGED <<rtafile, reader, nobjs, others>>

\* close that raises when the file was closed before.
close_Once(f) ==
    /\ call.op = "none"
    /\ rtafile[f].state = "live"
    /\ reader' = [reader EXCEPT ![f] = reader_close(reader[f])]
    /\ call' = Call(f, "close", <<reader[f].handle>>,
                    IF reader[f].handle = "open" THEN Ok(None)
                    ELSE Err("ClosedError"))
    /\ UNCHANGED <<rtafile, nobjs, others>>

\* RtaFile.close.  The call records the state it found the handle in.
close(f) ==
    /\ call.op = "none"
    /\ rtafile[f].state = "live"
    /\ reader' = [reader EXCEPT ![f] = reader_close(reader[f])]
    /\ call' = Call(f, "close", <<reader[f].handle>>, Ok(None))
    /\ UNCHANGED <<rtafile, nobjs, others>>

\* ------------------------------------------------------------ read_mobility

\* An integer index k into an axis of size n, as numpy and netCDF4 resolve
\* it: a negative index counts from the end.
NormIndex(k, n) ==
    IF 0 <= k /\ k < n THEN Some(k)
    ELSE IF -n <= k /\ k < 0 THEN Some(k + n)
    ELSE None

\* The shape of the stored 'mobility' array of the file at path p.
MobilityShape(p) ==
    <<Disk[p].vars.nrta, Disk[p].vars.nsppol, 2, ALen(Disk[p].vars.kTmesh), 3, 3,
      ALen(Disk[p].vars.edos_mesh)>>

\* var[k1, k2, k3, k4, k5, k6, :] on a 7-axis array of the given shape.
GetSlice(var, shape, key) ==
    LET n == [d \in 1 .. 6 |-> NormIndex(key[d], shape[d])]
    IN  IF \E d \in 1 .. 6 : n[d] = None THEN Err("IndexError")
        ELSE Ok([w \in 0 .. shape[7] - 1 |->
                    var[<<n[1][1], n[2][1], n[3][1], n[4][1], n[5][1], n[6][1], w>>]])

\* MobilityKey with the two tensor axes in the order of the label (i before j).
MobilityKey_LabelOrder(eh, itemp, component, spin, irta) ==
    LET ij == s2itup(component)
    IN  <<irta, spin, eh, itemp, ij[1], ij[2]>>

\* The index key read_mobility builds from its arguments.
MobilityKey(eh, itemp, component, spin, irta) ==
    LET ij == s2itup(component)
    IN  <<irta, spin, eh, itemp, ij[2], ij[1]>>

\* The energy mesh read_mobility returns beside the slice.
MobilityMesh(rd) == read_value(rd, "edos_mesh")

\* RtaReader.read_mobility(eh, itemp, component, spin, irta): the pair
\* (wvals, mobility), or the error raised.
read_mobility(rd, eh, itemp, component, spin, irta) ==
    LET wvals == MobilityMesh(rd)
        var == read_value(rd, "mobility")
        mobility == GetSlice(var.val, MobilityShape(rd.path),
                             MobilityKey(eh, itemp, component, spin, irta))
    IN  IF ~IsOk(wvals) THEN wvals
        ELSE IF ~IsOk(var) THEN var
        ELSE IF ~IsOk(mobility) THEN mobility
        ELSE Ok([emesh |-> wvals.val, mobility |-> mobility.val])

\* --------------------------------------------------------- get_mobility_mu

\* interp1d that brackets x_new by the sample points strictly below and at or
\* above it, and so computes the value at a sample point from the segment
\* that ends there.
interp1d_BracketBelow(x, y, x_new) ==
    LET n == ALen(x)
        below == {k \in 0 .. n - 2 : x[k] < x_new}
        j == IF below = {} THEN 0
             ELSE CHOOSE k \in below : \A m \in below : m <= k
    IN  IF x_new < x[0] \/ x_new > x[n - 1] THEN Err("DomainError")
        ELSE Ok(FMul(FDiv(y[j + 1] - y[j], x[j + 1] - x[j]), x_new - x[j]) + y[j])

\* interp1d that answers outside the mesh with the value at the nearest end
\* (the behaviour of numpy.interp) instead of raising.
interp1d_Clamped(x, y, x_new) ==
    LET n == ALen(x)
        j == CHOOSE k \in 0 .. n - 1 :
                /\ x[k] <= x_new
                /\ \A m \in 0 .. n - 1 : x[m] <= x_new => m <= k
    IN  IF x_new < x[0] THEN Ok(y[0])
        ELSE IF x_new > x[n - 1] THEN Ok(y[n - 1])
        ELSE IF j = n - 1 \/ x[j] = x_new THEN Ok(y[j])
        ELSE Ok(FMul(FDiv(y[j + 1] - y[j], x[j + 1] - x[j]), x_new - x[j]) + y[j])

\* scipy.interpolate.interp1d(x, y)(x_new) for a strictly increasing x:
\* linear interpolation, no extrapolation (bounds_error).
interp1d(x, y, x_new) ==
    LET n == ALen(x)
        j == CHOOSE k \in 0 .. n - 1 :
                /\ x[k] <= x_new
                /\ \A m \in 0 .. n - 1 : x[m] <= x_new => m <= k
    IN  IF x_new < x[0] \/ x_new > x[n - 1] THEN Err("DomainError")
        ELSE IF j = n - 1 \/ x[j] = x_new THEN Ok(y[j])
        ELSE Ok(FMul(FDiv(y[j + 1] - y[j], x[j + 1] - x[j]), x_new - x[j]) + y[j])

\* DefaultEf that converts the stored chemical potential to eV.
DefaultEf_InEV(rd, itemp) ==
    LET mu == read_value(rd, "transport_mu_e")
        k == NormIndex(itemp, ALen(mu.val))
    IN  IF ~IsOk(mu) THEN mu
        ELSE IF k = None THEN Err("IndexError")
        ELSE Ok(Ha_to_eV(mu.val[k[1]]))

\* The chemical potential used when ef is None:
\* self.reader.read_value('transport_mu_e')[itemp].
DefaultEf(rd, itemp) ==
    LET mu == read_value(rd, "transport_mu_e")
        k == NormIndex(itemp, ALen(mu.val))
    IN  IF ~IsOk(mu) THEN mu
        ELSE IF k = None THEN Err("IndexError")
        ELSE Ok(mu.val[k[1]])

\* RtaFile.get_mobility_mu(eh, itemp, component, ef, irta, spin) on the
\* file whose reader is rd.
get_mobility_mu(rd, eh, itemp, component, ef, irta, spin) ==
    LET e == IF ef = None THEN DefaultEf(rd, itemp) ELSE Ok(ef[1])
        m == read_mobility(rd, eh, itemp, component, spin, irta)
    IN  IF ~IsOk(e) THEN e
        ELSE IF ~IsOk(m) THEN m
        ELSE interp1d(m.val.emesh, m.val.mobility, e.val)

\* ----------------------------------------------------------------- inputs

StepEf == 10 * 10

\* The values of the argument ef: None or a potential.
EfArgs == {None} \cup {Some(StepEf * k) : k \in -2 .. MaxEf}

IdxArgs == (-MaxIdx - 1) .. MaxIdx

\* The index arguments <<irta, spin, eh, itemp>> offered to a call: every
\* combination in which at most one index lies outside 0 .. 1.
IdxTuples ==
    {t \in IdxArgs \X IdxArgs \X IdxArgs \X IdxArgs :
        Cardinality({d \in 1 .. 4 : t[d] \notin 0 .. 1}) <= 1}

Components == {<<a, b>> : a \in {"x", "y", "z"}, b \in {"x", "y", "z"}}

\* The components offered to get_mobility_mu: its default and two
\* off-diagonal ones.
MuComponents == {<<"x", "x">>, <<"x", "y">>, <<"z", "y">>}

\* ---------------------------------------------------------------- actions

\* f.reader.read_mobility(eh, itemp, component, spin, irta=irta) with the
\* indices drawn from `tuples` and the component from `components`.
ReadMobilityOn(f, tuples, components) ==
    /\ call.op = "none"
    /\ rtafile[f].state = "live"
    /\ \E t \in tuples, c \in components :
        call' = Call(f, "read_mobility",
                     [irta |-> t[1], spin |-> t[2], eh |-> t[3], itemp |-> t[4],
                      component |-> c, ef |-> None],
                     read_mobility(reader[f], t[3], t[4], c, t[2], t[1]))
    /\ UNCHANGED <<rtafile, reader, nobjs, others>>

ReadMobility(f) == ReadMobilityOn(f, IdxTuples, Components)

\* f.get_mobility_mu(eh, itemp, component=component, ef=ef, irta=irta, spin=spin)
\* with the indices, the component and ef drawn from the given sets.
GetMobilityMuOn(f, tuples, components, efs) ==
    /\ call.op = "none"
    /\ rtafile[f].state = "live"
    /\ \E t \in tuples, c \in components, ef \in efs :
        call' = Call(f, "get_mobility_mu",
                     [irta |-> t[1], spin |-> t[2], eh |-> t[3], itemp |-> t[4],
                      component |-> c, ef |-> ef],
                     get_mobility_mu(reader[f], t[3], t[4], c, ef, t[1], t[2]))
    /\ UNCHANGED <<rtafile, reader, nobjs, others>>

GetMobilityMu(f) == GetMobilityMuOn(f, IdxTuples, MuComponents, EfArgs)

\* f.tmesh: the mesh the reader computed when it was constructed.
tmesh(f) ==
    /\ call.op = "none"
    /\ rtafile[f].state = "live"
    /\ call' = Call(f, "tmesh", <<>>, Ok(reader[f].tmesh))
    /\ UNCHANGED <<rtafile, reader, nobjs, others>>

\* f.ntemp: len(self.tmesh).
ntemp(f) ==
    /\ call.op = "none"
    /\ rtafile[f].state = "live"
    /\ call' = Call(f, "ntemp", <<>>, Ok(ALen(reader[f].tmesh)))
    /\ UNCHANGED <<rtafile, reader, nobjs, others>>

\* f.reader.read_value(name), called by a user of the file.
ReadValue(f) ==
    /\ call.op = "none"
    /\ rtafile[f].state = "live"
    /\ \E name \in {"transport_mu_e", "edos_mesh", "kTmesh", "nrta"} :
        call' = Call(f, "read_value", <<name>>, read_value(reader[f], name))
    /\ UNCHANGED <<rtafile, reader, nobjs, others>>

\* ElectronsReader.read_ebands: a new ElectronBands object, the n-th object
\* allocated, built from the file of the reader.
read_ebands(rd, n) ==
    IF rd.handle # "open" THEN Err("ClosedError")
    ELSE Ok([id |-> n, path |-> rd.path])

\* ebands as a property that reads the bands anew at every access.
lazy_ebands_Recompute(x, rd, n) ==
    LET e == read_ebands(rd, n + 1)
    IN  IF IsOk(e)
        THEN [res |-> e, obj |-> [x EXCEPT !.ebands = Some(e.val)], n |-> n + 1]
        ELSE [res |-> e, obj |-> x, n |-> n]

\* The lazy property ebands of file object x: the value cached by the first
\* access, else the one read now, which is cached.  The result is the value
\* (or the error) and the object after the access.
lazy_ebands(x, rd, n) ==
    IF x.ebands # None THEN [res |-> Ok(x.ebands[1]), obj |-> x, n |-> n]
    ELSE LET e == read_ebands(rd, n + 1)
         IN  IF IsOk(e)
             THEN [res |-> e, obj |-> [x EXCEPT !.ebands = Some(e.val)], n |-> n + 1]
             ELSE [res |-> e, obj |-> x, n |-> n]

\* The lazy property params: get_ebands_params() reads the electron bands
\* and builds a new dictionary, cached by the first access.
lazy_params(x, rd, n) ==
    IF x.params # None THEN [res |-> Ok(x.params[1]), obj |-> x, n |-> n]
    ELSE LET e == lazy_ebands(x, rd, n)
             od == [id |-> e.n + 1, nsppol |-> rd.nsppol]
         IN  IF IsOk(e.res)
             THEN [res |-> Ok(od), obj |-> [e.obj EXCEPT !.params = Some(od)],
                   n |-> e.n + 1]
             ELSE e

\* An ebands whose cache is an attribute of the class: every constructed
\* RtaFile sees the bands read by f.
ebands_ClassCache(f) ==
    /\ call.op = "none"
    /\ rtafile[f].state = "live"
    /\ nobjs < MaxObjs
    /\ LET r == lazy_ebands(rtafile[f], reader[f], nobjs)
       IN  /\ rtafile' = [g \in DOMAIN rtafile |->
                            IF g = f THEN r.obj
                            ELSE IF rtafile[g].state = "live"
                            THEN [rtafile[g] EXCEPT !.ebands = r.obj.ebands]
                            ELSE rtafile[g]]
           /\ nobjs' = r.n
           /\ call' = Call(f, "ebands", <<>>, r.res)
    /\ UNCHANGED <<reader, others>>

\* f.ebands
ebands(f) ==
    /\ call.op = "none"
    /\ rtafile[f].state = "live"
    /\ nobjs < MaxObjs
    /\ LET r == lazy_ebands(rtafile[f], reader[f], nobjs)
       IN  /\ rtafile' = [rtafile EXCEPT ![f] = r.obj]
           /\ nobjs' = r.n
           /\ call' = Call(f, "ebands", <<>>, r.res)
    /\ UNCHANGED <<reader, others>>

\* f.structure: self.ebands.structure
structure(f) ==
    /\ call.op = "none"
    /\ rtafile[f].state = "live"
    /\ nobjs < MaxObjs
    /\ LET r == lazy_ebands(rtafile[f], reader[f], nobjs)
       IN  /\ rtafile' = [rtafile EXCEPT ![f] = r.obj]
           /\ nobjs' = r.n
           /\ call' = Call(f, "structure", <<>>,
                           IF IsOk(r.res) THEN Ok(<<"structure", r.res.val.path>>)
                           ELSE r.res)
    /\ UNCHANGED <<reader, others>>

\* f.params
params(f) ==
    /\ call.op = "none"
    /\ rtafile[f].state = "live"
    /\ nobjs + 1 < MaxObjs
    /\ LET r == lazy_params(rtafile[f], reader[f], nobjs)
       IN  /\ rtafile' = [rtafile EXCEPT ![f] = r.obj]
           /\ nobjs' = r.n
           /\ call' = Call(f, "params", <<>>, r.res)
    /\ UNCHANGED <<reader, others>>

\* The components to_string reports, in order.
StringComponents(verbose) ==
    IF verbose = 0 THEN <<<<"x", "x">>, <<"y", "y">>, <<"z", "z">>>>
    ELSE <<<<"x", "x">>, <<"y", "y">>, <<"z", "z">>,
           <<"x", "y">>, <<"x", "z">>, <<"y", "x">>>>

\* The mobility lines of to_string: for each component, RTA type and
\* temperature, the electron and the hole mobility at the stored chemical
\* potential; the first call that raises ends the loop.
MobilityLines(x, rd, verbose) ==
    LET cs == StringComponents(verbose)
        nt == ALen(rd.tmesh)
        count == Len(cs) * x.nrta * nt * 2
        at(k) == get_mobility_mu(rd, k % 2, (k \div 2) % nt,
                                 cs[(k \div (2 * nt * x.nrta)) + 1], None,
                                 (k \div (2 * nt)) % x.nrta, 0)
        bad == {k \in 0 .. count - 1 : ~IsOk(at(k))}
    IN  IF bad = {} THEN Ok([k \in 0 .. count - 1 |-> at(k).val])
        ELSE at(CHOOSE k \in bad : \A m \in bad : k <= m)

\* f.to_string(verbose): the structure and the bands are printed first, then
\* the mobility lines.
to_string(f) ==
    /\ call.op = "none"
    /\ rtafile[f].state = "live"
    /\ nobjs < MaxObjs
    /\ \E verbose \in {0, 1} :
        LET r == lazy_ebands(rtafile[f], reader[f], nobjs)
        IN  /\ rtafile' = [rtafile EXCEPT ![f] = r.obj]
            /\ nobjs' = r.n
            /\ call' = Call(f, "to_string", <<verbose>>,
                            IF IsOk(r.res)
                            THEN MobilityLines(rtafile[f], reader[f], verbose)
                            ELSE r.res)
    /\ UNCHANGED <<reader, others>>

\* eh2s(eh): the lookup {0: "n", 1: "p"}[eh].
eh2s(eh) ==
    IF eh = 0 THEN Ok("n") ELSE IF eh = 1 THEN Ok("p") ELSE Err("KeyError")

\* irta2s(irta): the lookup {0: "SERTA", 1: "MRTA"}[irta].
irta2s(irta) ==
    IF irta = 0 THEN Ok("SERTA") ELSE IF irta = 1 THEN Ok("MRTA")
    ELSE Err("KeyError")

\* A style_for_irta that takes every irta other than 0 for MRTA.
style_for_irta_ElseMRTA(irta, with_marker) ==
    LET opts == IF irta = 0 THEN [linewidth |-> Fx, linestyle |-> "dotted"]
                ELSE [linewidth |-> Fx, linestyle |-> "solid"]
        marker == IF irta = 0 THEN "^" ELSE "v"
    IN  IF with_marker THEN Ok(opts @@ [marker |-> marker]) ELSE Ok(opts)

\* style_for_irta(irta, with_marker=False): the dict of plot options.
style_for_irta(irta, with_marker) ==
    IF irta = 0
    THEN Ok(IF with_marker
            THEN [linewidth |-> Fx, linestyle |-> "dotted", marker |-> "^"]
            ELSE [linewidth |-> Fx, linestyle |-> "dotted"])
    ELSE IF irta = 1
    THEN Ok(IF with_marker
            THEN [linewidth |-> Fx, linestyle |-> "solid", marker |-> "v"]
            ELSE [linewidth |-> Fx, linestyle |-> "solid"])
    ELSE Err("ValueError")

\* Calls of the three module-level functions; they belong to no file.
Call_eh2s ==
    /\ call.op = "none"
    /\ \E eh \in IdxArgs : call' = Call(0, "eh2s", <<eh>>, eh2s(eh))
    /\ UNCHANGED <<rtafile, reader, nobjs, others>>

Call_irta2s ==
    /\ call.op = "none"
    /\ \E irta \in IdxArgs : call' = Call(0, "irta2s", <<irta>>, irta2s(irta))
    /\ UNCHANGED <<rtafile, reader, nobjs, others>>

Call_style_for_irta ==
    /\ call.op = "none"
    /\ \E irta \in IdxArgs, with_marker \in BOOLEAN :
        call' = Call(0, "style_for_irta", <<irta, with_marker>>,
                     style_for_irta(irta, with_marker))
    /\ UNCHANGED <<rtafile, reader, nobjs, others>>

\* The caller takes the result of the last call and goes on.
Return ==
    /\ call.op # "none"
    /\ call' = Call(0, "none", <<>>, Ok(None))
    /\ UNCHANGED <<rtafile, reader, nobjs, others>>

Next ==
    \/ \E f \in Files :
        \/ \E p \in Paths : RtaFile_init(f, p)
        \/ close(f)
        \/ ReadMobility(f)
        \/ GetMobilityMu(f)
        \/ ReadValue(f)
        \/ tmesh(f)
        \/ ntemp(f)
        \/ ebands(f)
        \/ structure(f)
        \/ params(f)
        \/ to_string(f)
    \/ Call_eh2s
    \/ Call_irta2s
    \/ Call_style_for_irta
    \/ Return

Spec == Init /\ [][Next]_vars

\* ------------------------------------------------- two RtaFile instances

\* Two RtaFile objects in one program.
PairFiles == {1, 2}

\* The paths they are constructed on, and the arguments of their queries.
PairPaths == {<<"good", "A">>, <<"good", "B">>, <<"broken", "nrta">>}

PairTuples == {<<0, 0, 0, 0>>, <<1, 0, 1, 1>>, <<0, 1, 0, 0>>}

PairEfs == {None, Some(2 * StepEf)}

InitPair ==
    /\ rtafile = [f \in PairFiles |-> NoFile]
    /\ reader = [f \in PairFiles |-> NoReader]
    /\ call = Call(0, "none", <<>>, Ok(None))
    /\ nobjs = 0
    /\ RobotIdle
    /\ FlowIdle
    /\ BenchIdle
    /\ LessonsIdle

NextPair ==
    \/ \E f \in PairFiles :
        \/ \E p \in PairPaths : RtaFile_init(f, p)
        \/ close(f)
        \/ ReadMobilityOn(f, PairTuples, {<<"x", "y">>})
        \/ GetMobilityMuOn(f, PairTuples, {<<"x", "x">>}, PairEfs)
        \/ tmesh(f)
        \/ ntemp(f)
        \/ ebands(f)
        \/ params(f)
    \/ Return

SpecPair == InitPair /\ [][NextPair]_vars

\* ================================================================ RtaRobot

\* kptrlatt[0, 0] of a member file lies in 1 .. MaxK.
MaxK == 2

\* A robot holds at most MaxMembers files.
MaxMembers == 3

\* The stored 'kptrlatt' of a member: a diagonal 3 x 3 matrix.
Kptrlatt(kx) ==
    [t \in (0 .. 2) \X (0 .. 2) |->
        IF t[1] # t[2] THEN 0 ELSE kx + t[1]]

\* The shape of the stored 'mobility_mu' of a member:
\* [nrta, nsppol, ntemp, three, three, two].
MobilityMuShape == <<2, 1, 1, 3, 3, 2>>

MobilityMuData(seed) ==
    [t \in (0 .. 1) \X (0 .. 0) \X (0 .. 0) \X (0 .. 2) \X (0 .. 2) \X (0 .. 1) |->
        LET lin == (((t[1] * 3 + t[4]) * 3 + t[5]) * 2 + t[6])
        IN  seed + 37 * lin + ((lin * lin) % 11)]

\* The n-th item of a robot: its label and its open file.  `absent` holds the
\* names the file's schema lacks.
Member(n, kx, seed, absent) ==
    [label       |-> <<"label", n>>,
     path        |-> <<"member", n>>,
     absent      |-> absent,
     kptrlatt    |-> Kptrlatt(kx),
     mobility_mu |-> MobilityMuData(seed)]

\* The files a member can be: well-formed ones for every grid and two data
\* sets, and one for each array the aggregator reads and the file lacks.
MemberKinds ==
    {<<kx, seed, {}>> : kx \in 1 .. MaxK, seed \in {0, 500}}
        \cup {<<1, 0, {n}>> : n \in {"kptrlatt", "mobility_mu"}}

MemberLists ==
    UNION {{[n \in 1 .. len |-> Member(n, k[n][1], k[n][2], k[n][3])] :
                k \in [1 .. len -> MemberKinds]} : len \in 0 .. MaxMembers}

\* An error whose message names the given things.
ErrNaming(kind, names) == [kind |-> kind, val |-> names]

\* ncfile.reader.read_value(name) / read_variable(name) on member m: the
\* reader knows the name asked for and the path of its file.
member_read(m, name) ==
    IF name \in m.absent THEN ErrNaming("SchemaError", {name, m.path})
    ELSE Ok(m[name])

\* var[k1, ..., k6] on the 6-axis array 'mobility_mu'.
GetItem(var, shape, key) ==
    LET n == [d \in 1 .. 6 |-> NormIndex(key[d], shape[d])]
    IN  IF \E d \in 1 .. 6 : n[d] = None THEN Err("IndexError")
        ELSE Ok(var[<<n[1][1], n[2][1], n[3][1], n[4][1], n[5][1], n[6][1]>>])

\* One pass of the loop of plot_mobility_conv: the item [kptrlattx, mobility]
\* appended for member m, or the error raised.
ConvItem(m, eh, component, itemp, spin) ==
    LET ij == s2itup(component)
        irta == 0
        kptrlatt == member_read(m, "kptrlatt")
        var == member_read(m, "mobility_mu")
        mobility == GetItem(var.val, MobilityMuShape,
                            <<irta, spin, itemp, ij[2], ij[1], eh>>)
    IN  IF ~IsOk(kptrlatt) THEN kptrlatt
        ELSE IF ~IsOk(var) THEN var
        ELSE IF ~IsOk(mobility) THEN mobility
        ELSE Ok(<<kptrlatt.val[<<0, 0>>], mobility.val>>)

\* A loop that keeps one item for each value of kptrlattx.
ConvItems_OnePerKey(files, eh, component, itemp, spin) ==
    LET item(n) == ConvItem(files[n], eh, component, itemp, spin)
        bad == {n \in 1 .. Len(files) : ~IsOk(item(n))}
        first == {n \in 1 .. Len(files) :
                    \A m \in 1 .. n - 1 : item(m).val[1] # item(n).val[1]}
    IN  IF bad # {} THEN item(CHOOSE n \in bad : \A m \in bad : n <= m)
        ELSE LET kept == SelectSeq([n \in 1 .. Len(files) |-> n],
                                   LAMBDA n : n \in first)
             IN  Ok([k \in 1 .. Len(kept) |-> item(kept[k]).val])

\* The loop of plot_mobility_conv over self.abifiles: the list res, or the
\* error of the first member that raises.
ConvItems(files, eh, component, itemp, spin) ==
    LET item(n) == ConvItem(files[n], eh, component, itemp, spin)
        bad == {n \in 1 .. Len(files) : ~IsOk(item(n))}
    IN  IF bad # {} THEN item(CHOOSE n \in bad : \A m \in bad : n <= m)
        ELSE Ok([n \in 1 .. Len(files) |-> item(n).val])


\* An insertion that puts x before the items whose key equals its own.
InsertSorted_BeforeEqual(s, x) ==
    LET n == Cardinality({k \in 1 .. Len(s) : s[k][1] < x[1]})
    IN  SubSeq(s, 1, n) \o <<x>> \o SubSeq(s, n + 1, Len(s))

\* One step of list.sort(key=lambda t: t[0]) on a sorted prefix s: x goes
\* after every item whose key is at most its own (the sort is stable).
InsertSorted(s, x) ==
    LET n == Cardinality({k \in 1 .. Len(s) : s[k][1] <= x[1]})
    IN  SubSeq(s, 1, n) \o <<x>> \o SubSeq(s, n + 1, Len(s))

RECURSIVE list_sort(_)
\* res.sort(key=lambda t: t[0])
list_sort(res) ==
    IF res = <<>> THEN <<>>
    ELSE InsertSorted(list_sort(SubSeq(res, 1, Len(res) - 1)), res[Len(res)])

\* The arguments offered to plot_mobility_conv.
ConvArgs ==
    [eh : 0 .. 2, component : {<<"x", "x">>, <<"x", "y">>}, itemp : 0 .. 1,
     spin : {0}]

\* RtaRobot.plot_mobility_conv(eh, component, itemp, spin).  `res` is the
\* sorted list (None when the loop raised), `out` the figure or the error.
\* With no member the names kptrlatty and kptrlattx are unbound when the
\* grid ratios are computed.
plot_mobility_conv ==
    /\ conv.op = "none"
    /\ \E a \in ConvArgs :
        LET items == ConvItems(abifiles, a.eh, a.component, a.itemp, a.spin)
            res == IF IsOk(items) THEN Some(list_sort(items.val)) ELSE None
            out == IF ~IsOk(items) THEN items
                   ELSE IF a.eh \notin {0, 1} THEN Err("ValueError")
                   ELSE IF abifiles = <<>> THEN Err("UnboundLocalError")
                   ELSE Ok("figure")
        IN  conv' = [op |-> "plot_mobility_conv", args |-> a, res |-> res,
                     out |-> out]
    /\ UNCHANGED <<rtavars, abifiles, flowvars, bench, lessons>>

\* The caller takes the figure or the error and goes on.
ConvReturn ==
    /\ conv.op # "none"
    /\ conv' = NoConv
    /\ UNCHANGED <<rtavars, abifiles, flowvars, bench, lessons>>

\* A robot over any list of member files, no call made yet.
InitRobot ==
    /\ RtaInit
    /\ abifiles \in MemberLists
    /\ conv = NoConv
    /\ FlowIdle
    /\ BenchIdle
    /\ LessonsIdle

NextRobot ==
    \/ plot_mobility_conv
    \/ ConvReturn

SpecRobot == InitRobot /\ [][NextRobot]_vars

\* =========================================================== BenchmarkFlow

\* The flow has MaxTasks tasks.
MaxTasks == 3

\* The tasks in the order of flow.iflat_tasks(): work by work, and within a
\* work in the order of registration.  Work w holds tasks 2w - 1 and 2w.
FlowTasks == 1 .. MaxTasks

WorkOf(t) == (t + 1) \div 2

FlowWorks == {WorkOf(t) : t \in FlowTasks}

\* Node ids are unique and follow the order of creation of the nodes, which
\* need not be the order of iteration.
TaskNodeId(t) == 50 - t

TaskNode(t) == [kind |-> "task", node_id |-> TaskNodeId(t)]

WorkNode(w) ==
    [kind |-> "work", node_id |-> 60 + w,
     tasks |-> {TaskNodeId(t) : t \in {u \in FlowTasks : WorkOf(u) = w}}]

\* The nodes passed to exclude_from_benchmark: the tasks and the works of the
\* flow, a task of another flow, and the flow itself (neither work nor task).
FlowNodes ==
    {TaskNode(t) : t \in FlowTasks} \cup {WorkNode(w) : w \in FlowWorks}
        \cup {[kind |-> "task", node_id |-> 99], [kind |-> "flow", node_id |-> 70]}

Statuses == {"S_OK", "S_RUN", "S_ERROR"}

\* self._exclude_nodeids, an empty set when the attribute does not exist yet.
ExcludeSet(fl) == IF fl.exclude = None THEN {} ELSE fl.exclude[1]

\* An exclusion that starts from a new set on every call.
Excluded_NewSet(excl, node) ==
    IF node.kind = "work" THEN node.tasks
    ELSE IF node.kind = "task" THEN {node.node_id}
    ELSE {}

\* The set _exclude_nodeids after exclude_from_benchmark(node) on the set
\* excl: the ids of the tasks of a work, or the id of a task.
Excluded(excl, node) ==
    IF node.kind = "work" THEN excl \cup node.tasks
    ELSE IF node.kind = "task" THEN excl \cup {node.node_id}
    ELSE excl

\* BenchmarkFlow.exclude_from_benchmark(node); a node that is neither a work
\* nor a task fails the assertion, after the set was created.
exclude_from_benchmark ==
    /\ fcall.op = "none"
    /\ \E node \in FlowNodes :
        /\ flow' = [flow EXCEPT !.exclude = Some(Excluded(ExcludeSet(flow), node))]
        /\ fcall' = [op |-> "exclude_from_benchmark", args |-> <<node>>,
                     res |-> IF node.kind \in {"work", "task"} THEN Ok(None)
                             ELSE Err("AssertionError")]
    /\ UNCHANGED <<rtavars, robotvars, bench, lessons>>

\* BenchmarkFlow.exclude_nodeids: the property creates the set when it does
\* not exist and returns it.
exclude_nodeids ==
    /\ fcall.op = "none"
    /\ flow' = [flow EXCEPT !.exclude = Some(ExcludeSet(flow))]
    /\ fcall' = [op |-> "exclude_nodeids", args |-> <<>>,
                 res |-> Ok(ExcludeSet(flow))]
    /\ UNCHANGED <<rtavars, robotvars, bench, lessons>>

\* A get_parser loop that does not look at the status of the tasks.
ParserNids_AnyStatus(fl) ==
    LET kept == SelectSeq([t \in FlowTasks |-> t],
                          LAMBDA t : TaskNodeId(t) \notin ExcludeSet(fl))
    IN  [k \in 1 .. Len(kept) |-> TaskNodeId(kept[k])]

\* The list nids built by the loop of get_parser over self.iflat_tasks().
ParserNids(fl) ==
    LET kept == SelectSeq([t \in FlowTasks |-> t],
                          LAMBDA t : /\ TaskNodeId(t) \notin ExcludeSet(fl)
                                     /\ fl.status[t] = "S_OK")
    IN  [k \in 1 .. Len(kept) |-> TaskNodeId(kept[k])]

\* BenchmarkFlow.get_parser: `passed` is the list handed to parse_timing,
\* whose answer (no parser, or a parser with some or all of the sections) is
\* returned as it is.  The loop reads exclude_nodeids, which creates the set.
get_parser ==
    /\ fcall.op = "none"
    /\ \E parser \in {"None", "some sections", "all sections"} :
        /\ flow' = [flow EXCEPT !.exclude = Some(ExcludeSet(flow))]
        /\ fcall' = [op |-> "get_parser", args |-> <<>>,
                     passed |-> ParserNids(flow), res |-> Ok(parser)]
    /\ UNCHANGED <<rtavars, robotvars, bench, lessons>>

\* The caller takes the result of the last call on the flow and goes on.
FlowReturn ==
    /\ fcall.op # "none"
    /\ fcall' = NoFlowCall
    /\ UNCHANGED <<rtavars, robotvars, flow, bench, lessons>>

\* A flow whose tasks are in any status, nothing excluded yet.
InitFlow ==
    /\ RtaInit
    /\ RobotIdle
    /\ flow \in [status : [FlowTasks -> Statuses], exclude : {None}]
    /\ fcall = NoFlowCall
    /\ BenchIdle
    /\ LessonsIdle

NextFlow ==
    \/ exclude_from_benchmark
    \/ exclude_nodeids
    \/ get_parser
    \/ FlowReturn

SpecFlow == InitFlow /\ [][NextFlow]_vars

\* ============================================================== bench_main

\* main asks accept_mpi_omp about 1 .. MaxMpi MPI processes and 1 .. MaxOmp
\* OpenMP threads.
MaxMpi == 4

MaxOmp == 2

\* str.upper on the log levels given on the command line.
Upper(s) ==
    CASE s = "debug" -> "DEBUG"
      [] s = "verbose" -> "VERBOSE"
      [] s = "basic_format" -> "BASIC_FORMAT"
      [] OTHER -> s

\* getattr(logging, name, None): the levels are integers, BASIC_FORMAT is a
\* string, and the module has no attribute VERBOSE.
LoggingAttr(name) ==
    CASE name = "DEBUG" -> Some([type |-> "int", val |-> 10])
      [] name = "ERROR" -> Some([type |-> "int", val |-> 40])
      [] name = "BASIC_FORMAT" -> Some([type |-> "str", val |-> 0])
      [] OTHER -> None

\* isinstance(getattr(logging, loglevel.upper(), None), int)
IsLogLevel(loglevel) ==
    LET numeric_level == LoggingAttr(Upper(loglevel))
    IN  numeric_level # None /\ numeric_level[1].type = "int"

\* range(t[0], t[1], t[2]) for a positive step, as a sequence.
Range(t) ==
    LET n == IF t[2] <= t[1] THEN 0 ELSE (t[2] - t[1] + t[3] - 1) \div t[3]
    IN  [k \in 1 .. n |-> t[1] + (k - 1) * t[3]]

\* The values of --mpi-list and --omp-list: not given, a triple, a pair.
ListArgs == {None, Some(<<1, 4, 2>>), Some(<<1, 4>>)}

\* The command lines: parser.parse_args() of each.
CommandLines ==
    [loglevel  : {"ERROR", "debug", "verbose", "basic_format"},
     mpi_list  : ListArgs,
     omp_list  : ListArgs,
     min_ncpus : {-1, 4},
     max_ncpus : {Some(4), Some(206)},
     scheduler : BOOLEAN]

\* A run of the wrapper at its first statement.
BenchStart(options) ==
    [pc |-> "start", options |-> options, patched |-> FALSE,
     main_calls |-> 0, accept |-> None, flow |-> None,
     scheduler_started |-> FALSE, scheduler_result |-> None, ret |-> None]

\* The wrapper returns v / raises.
BenchDone(b, res) == [b EXCEPT !.pc = "done", !.ret = Some(res)]

\* Lines 66-69: the log level is looked up and checked.
check_loglevel ==
    /\ bench.pc = "start"
    /\ bench' = IF IsLogLevel(bench.options.loglevel)
                THEN [bench EXCEPT !.pc = "lists"]
                ELSE BenchDone(bench, Err("ValueError"))
    /\ UNCHANGED <<rtavars, robotvars, flowvars, lessons>>

\* Lines 72-84: --mpi-list and --omp-list are evaluated and turned into
\* ranges; a value that is not a triple fails the assertion.
parse_lists ==
    /\ bench.pc = "lists"
    /\ LET o == bench.options
           bad(l) == l # None /\ Len(l[1]) # 3
           ranged(l) == IF l = None THEN None ELSE Some(Range(l[1]))
       IN  bench' = IF bad(o.mpi_list) \/ bad(o.omp_list)
                    THEN BenchDone(bench, Err("AssertionError"))
                    ELSE [bench EXCEPT !.pc = "patch",
                                       !.options.mpi_list = ranged(o.mpi_list),
                                       !.options.omp_list = ranged(o.omp_list)]
    /\ UNCHANGED <<rtavars, robotvars, flowvars, lessons>>

\* Line 113: accept_mpi_omp and get_workdir are bound to options.
monkey_patch ==
    /\ bench.pc = "patch"
    /\ bench' = [bench EXCEPT !.pc = "manager", !.patched = TRUE]
    /\ UNCHANGED <<rtavars, robotvars, flowvars, lessons>>

\* Line 117: TaskManager.as_manager builds the manager or raises.
as_manager ==
    /\ bench.pc = "manager"
    /\ \E found \in BOOLEAN :
        bench' = IF found THEN [bench EXCEPT !.pc = "call"]
                 ELSE BenchDone(bench, Err("RuntimeError"))
    /\ UNCHANGED <<rtavars, robotvars, flowvars, lessons>>

\* Line 119: main(options) is called.
call_main ==
    /\ bench.pc = "call"
    /\ bench' = [bench EXCEPT !.pc = "main", !.main_calls = @ + 1]
    /\ UNCHANGED <<rtavars, robotvars, flowvars, lessons>>

\* An accept_mpi_omp that skips a run on exactly min_ncpus CPUs.
AcceptMpiOmp_Above(opts, mpi_procs, omp_threads) ==
    LET tot_ncpus == mpi_procs * omp_threads
    IN  IF tot_ncpus <= opts.min_ncpus THEN FALSE
        ELSE IF opts.max_ncpus # None /\ tot_ncpus > opts.max_ncpus[1] THEN FALSE
        ELSE TRUE

\* accept_mpi_omp(opts, mpi_procs, omp_threads), lines 89-98.
AcceptMpiOmp(opts, mpi_procs, omp_threads) ==
    LET tot_ncpus == mpi_procs * omp_threads
    IN  IF tot_ncpus < opts.min_ncpus THEN FALSE
        ELSE IF opts.max_ncpus # None /\ tot_ncpus > opts.max_ncpus[1] THEN FALSE
        ELSE TRUE

\* main calls options.accept_mpi_omp(mpi_procs, omp_threads).
accept_mpi_omp ==
    /\ bench.pc = "main"
    /\ bench.patched
    /\ bench.accept = None
    /\ \E mpi_procs \in 1 .. MaxMpi, omp_threads \in 1 .. MaxOmp :
        bench' = [bench EXCEPT !.accept =
                    Some([mpi_procs |-> mpi_procs, omp_threads |-> omp_threads,
                          res |-> AcceptMpiOmp(bench.options, mpi_procs,
                                               omp_threads)])]
    /\ UNCHANGED <<rtavars, robotvars, flowvars, lessons>>

\* main takes the answer and goes on.
AcceptReturn ==
    /\ bench.pc = "main"
    /\ bench.accept # None
    /\ bench' = [bench EXCEPT !.accept = None]
    /\ UNCHANGED <<rtavars, robotvars, flowvars, lessons>>

\* main lifts the upper limit: accept_mpi_omp provides for max_ncpus = None,
\* which the parser (an int, default 206) never produces.
clear_max_ncpus ==
    /\ bench.pc = "main"
    /\ bench.accept = None
    /\ bench.options.max_ncpus # None
    /\ bench' = [bench EXCEPT !.options.max_ncpus = None]
    /\ UNCHANGED <<rtavars, robotvars, flowvars, lessons>>

\* main returns None or a flow, or raises.
main_returns ==
    /\ bench.pc = "main"
    /\ bench.accept = None
    /\ \E r \in {"None", "flow", "raise"} :
        bench' = CASE r = "None" -> [bench EXCEPT !.pc = "returned"]
                   [] r = "flow" -> [bench EXCEPT !.pc = "returned",
                                                  !.flow = Some("flow")]
                   [] OTHER -> BenchDone(bench, Err("Exception"))
    /\ UNCHANGED <<rtavars, robotvars, flowvars, lessons>>

\* Lines 120-125 with a scheduler started for every flow.
after_main_AlwaysScheduler ==
    /\ bench.pc = "returned"
    /\ bench' = IF bench.flow = None THEN BenchDone(bench, Ok(0))
                ELSE [bench EXCEPT !.pc = "scheduler",
                                   !.scheduler_started = TRUE]
    /\ UNCHANGED <<rtavars, robotvars, flowvars, lessons>>

\* Lines 120-125: 0 without a flow; the scheduler is made and started when
\* --scheduler was given; 0 otherwise.
after_main ==
    /\ bench.pc = "returned"
    /\ bench' = IF bench.flow = None THEN BenchDone(bench, Ok(0))
                ELSE IF bench.options.scheduler
                THEN [bench EXCEPT !.pc = "scheduler",
                                   !.scheduler_started = TRUE]
                ELSE BenchDone(bench, Ok(0))
    /\ UNCHANGED <<rtavars, robotvars, flowvars, lessons>>

\* Line 123: start() returns the scheduler's exit value, which the wrapper
\* returns, or raises.
scheduler_ends ==
    /\ bench.pc = "scheduler"
    /\ \E r \in {0, 1, -1} :
        bench' = IF r = -1 THEN BenchDone(bench, Err("Exception"))
                 ELSE BenchDone([bench EXCEPT !.scheduler_result = Some(r)],
                                Ok(r))
    /\ UNCHANGED <<rtavars, robotvars, flowvars, lessons>>

\* The wrapper is called with any command line.
InitBench ==
    /\ RtaInit
    /\ RobotIdle
    /\ FlowIdle
    /\ bench \in {BenchStart(o) : o \in CommandLines}
    /\ LessonsIdle

NextBench ==
    \/ check_loglevel
    \/ parse_lists
    \/ monkey_patch
    \/ as_manager
    \/ call_main
    \/ accept_mpi_omp
    \/ AcceptReturn
    \/ clear_max_ncpus
    \/ main_returns
    \/ after_main
    \/ scheduler_ends

SpecBench == InitBench /\ [][NextBench]_vars

\* ================================================== lesson_helper_functions

\* abinit_vars.yml describes at most MaxVars variables.
MaxVars == 2

\* get_abinit_variables is called at most MaxDbCalls times in a run, directly
\* or by abinit_help.
MaxDbCalls == 3

\* The entries of abinit_vars.yml; two entries can carry the same varname.
YmlVars == [varname : {"ecut", "ngkpt"}, defaultval : {0, 1}, text : {"doc"}]

\* abinit_vars.yml beside the module: a file that cannot be opened, or the
\* list of variables yaml.load returns.
YmlFiles ==
    {None} \cup {Some(v) : v \in UNION {[1 .. n -> YmlVars] : n \in 0 .. MaxVars}}

\* The names asked for; no file describes "nband".
AskedNames == {"ecut", "ngkpt", "nband"}

RECURSIVE load_vars(_)
\* VariableDatabase.load_vars past yaml.load: all_vars[var.varname] = var for
\* each var in turn, so that a later entry replaces an earlier one.
load_vars(variables) ==
    IF variables = <<>> THEN <<>>
    ELSE LET before == load_vars(SubSeq(variables, 1, Len(variables) - 1))
             var == variables[Len(variables)]
         IN  [n \in DOMAIN before \cup {var.varname} |->
                IF n = var.varname THEN var ELSE before[n]]

\* VariableDatabase(): the new object, or the error of open().
VariableDatabase_init(yml) ==
    IF yml = None THEN Err("IOError")
    ELSE Ok([all_vars |-> load_vars(yml[1])])

\* The module after import: the global is None and no database exists.
\* objects[id] is the VariableDatabase with identity id and `born` the number
\* of the call of get_abinit_variables that constructed it.
LessonsImported(yml) ==
    [state |-> "imported", yml |-> yml, VARS_DATABASE |-> None,
     objects |-> <<>>, ncalls |-> 0, call |-> [op |-> "none"]]

\* A get_abinit_variables that constructs a database on every call.
get_abinit_variables_EveryCall(l) ==
    LET r == VariableDatabase_init(l.yml)
        id == Len(l.objects) + 1
        n == l.ncalls + 1
    IN  IF IsOk(r)
        THEN [l |-> [l EXCEPT !.ncalls = n,
                              !.objects = Append(@, [all_vars |-> r.val.all_vars,
                                                     born |-> n]),
                              !.VARS_DATABASE = Some(id)],
              res |-> Ok(id)]
        ELSE [l |-> [l EXCEPT !.ncalls = n], res |-> r]

\* get_abinit_variables(): the module after the call and the database
\* returned (its identity), or the error VariableDatabase() raised, which
\* leaves the global None.
get_abinit_variables(l) ==
    LET r == VariableDatabase_init(l.yml)
        id == Len(l.objects) + 1
        n == l.ncalls + 1
    IN  IF l.VARS_DATABASE # None
        THEN [l |-> [l EXCEPT !.ncalls = n], res |-> Ok(l.VARS_DATABASE[1])]
        ELSE IF IsOk(r)
        THEN [l |-> [l EXCEPT !.ncalls = n,
                              !.objects = Append(@, [all_vars |-> r.val.all_vars,
                                                     born |-> n]),
                              !.VARS_DATABASE = Some(id)],
              res |-> Ok(id)]
        ELSE [l |-> [l EXCEPT !.ncalls = n], res |-> r]

\* VariableDatabase.get_var(variable): self.all_vars[variable]
get_var(db, variable) ==
    IF variable \in DOMAIN db.all_vars THEN Ok(db.all_vars[variable])
    ELSE Err("KeyError")

\* A call of get_abinit_variables().
Call_get_abinit_variables ==
    /\ lessons.state = "imported"
    /\ lessons.call.op = "none"
    /\ lessons.ncalls < MaxDbCalls
    /\ LET r == get_abinit_variables(lessons)
       IN  lessons' = [r.l EXCEPT !.call = [op |-> "get_abinit_variables",
                                            args |-> <<>>, res |-> r.res]]
    /\ UNCHANGED <<rtavars, robotvars, flowvars, bench>>

\* database.get_var(variable) on a database a caller holds.
Call_get_var ==
    /\ lessons.state = "imported"
    /\ lessons.call.op = "none"
    /\ \E id \in 1 .. Len(lessons.objects), variable \in AskedNames :
        lessons' = [lessons EXCEPT !.call =
                        [op |-> "get_var", args |-> <<id, variable>>,
                         res |-> get_var(lessons.objects[id], variable)]]
    /\ UNCHANGED <<rtavars, robotvars, flowvars, bench>>

\* abinit_help(inputvariable): the database is fetched, the variable looked
\* up, and its default value and description are printed.
abinit_help ==
    /\ lessons.state = "imported"
    /\ lessons.call.op = "none"
    /\ lessons.ncalls < MaxDbCalls
    /\ \E inputvariable \in AskedNames :
        LET r == get_abinit_variables(lessons)
            var == get_var(r.l.objects[r.res.val], inputvariable)
            res == IF ~IsOk(r.res) THEN r.res
                   ELSE IF ~IsOk(var) THEN var
                   ELSE Ok(<<"Default value", var.val.defaultval,
                             "Description", var.val.text>>)
        IN  lessons' = [r.l EXCEPT !.call = [op |-> "abinit_help",
                                             args |-> <<inputvariable>>,
                                             res |-> res]]
    /\ UNCHANGED <<rtavars, robotvars, flowvars, bench>>

\* The caller takes the result and goes on.
LessonsReturn ==
    /\ lessons.state = "imported"
    /\ lessons.call.op # "none"
    /\ lessons' = [lessons EXCEPT !.call = [op |-> "none"]]
    /\ UNCHANGED <<rtavars, robotvars, flowvars, bench>>

\* The module was imported, beside any abinit_vars.yml.
InitLessons ==
    /\ RtaInit
    /\ RobotIdle
    /\ FlowIdle
    /\ BenchIdle
    /\ lessons \in {LessonsImported(yml) : yml \in YmlFiles}

NextLessons ==
    \/ Call_get_abinit_variables
    \/ Call_get_var
    \/ abinit_help
    \/ LessonsReturn

SpecLessons == InitLessons /\ [][NextLessons]_vars

\* ----------------------------------------------------------------- claims

\* The file object, the reader and the stored data the last call was made on.
CallReader == reader[call.file]

CallStored == Disk[CallReader.path].vars

\* The last call passed indices that lie inside the declared dimensions.
IndicesInRange ==
    /\ call.args.irta \in 0 .. CallStored.nrta - 1
    /\ call.args.spin \in 0 .. CallStored.nsppol - 1
    /\ call.args.eh \in 0 .. 1
    /\ call.args.itemp \in 0 .. ALen(CallStored.kTmesh) - 1

\* C1: for every valid (irta, spin, eh, itemp, component), read_mobility on an
\* open file returns the slice of the stored 'mobility' array at
\* [irta, spin, eh, itemp, j, i, :], where i is the axis of the first and j the
\* axis of the second character of the component label, and the slice has as
\* many entries as the energy mesh.
C1_ReadMobilitySlice ==
    (call.op = "read_mobility" /\ CallReader.handle = "open" /\ IndicesInRange) =>
        LET a == call.args
            i == AxisIndex(a.component[1])
            j == AxisIndex(a.component[2])
        IN  /\ IsOk(call.res)
            /\ DOMAIN call.res.val.mobility = DOMAIN CallStored.edos_mesh
            /\ \A w \in DOMAIN CallStored.edos_mesh :
                call.res.val.mobility[w] =
                    CallStored.mobility[<<a.irta, a.spin, a.eh, a.itemp, j, i, w>>]
            /\ ALen(call.res.val.mobility) = ALen(call.res.val.emesh)

\* C1 witness: a slice was read for an off-diagonal component at the last
\* RTA variant, spin, carrier and temperature of the two-spin file.
C1_Witness ==
    /\ call.op = "read_mobility"
    /\ IsOk(call.res)
    /\ call.args.component = <<"x", "z">>
    /\ call.args.irta = 1 /\ call.args.spin = 1
    /\ call.args.eh = 1 /\ call.args.itemp = 1
    /\ ALen(call.res.val.mobility) = 2

\* C2 (as claimed): the energy mesh read_mobility returns, which
\* get_mobility_mu interpolates on, is the mesh in eV: the stored 'edos_mesh'
\* times Ha_to_eV, equal to the attribute edos_mesh_eV of the file.
C2_MeshInEV ==
    (call.op = "read_mobility" /\ IsOk(call.res)) =>
        /\ call.res.val.emesh = ArrHaToEV(CallStored.edos_mesh)
        /\ call.res.val.emesh = rtafile[call.file].edos_mesh_eV

\* The stored chemical potential at the index itemp of the last call, as a
\* present value, or None when itemp does not resolve to an entry.
StoredMu ==
    LET mu == CallStored.transport_mu_e
        k == call.args.itemp
    IN  IF 0 <= k /\ k < ALen(mu) THEN Some(mu[k])
        ELSE IF -ALen(mu) <= k /\ k < 0 THEN Some(mu[k + ALen(mu)])
        ELSE None

\* C3: get_mobility_mu with ef omitted returns what get_mobility_mu returns
\* with ef set to the stored 'transport_mu_e' at index itemp, for the same eh,
\* component, irta and spin (the same value, or the same error).
C3_DefaultEfIsStoredMu ==
    (/\ call.op = "get_mobility_mu"
     /\ call.args.ef = None
     /\ CallReader.handle = "open"
     /\ StoredMu # None) =>
        call.res = get_mobility_mu(CallReader, call.args.eh, call.args.itemp,
                                   call.args.component, StoredMu,
                                   call.args.irta, call.args.spin)

\* C3 witness: a call without ef returned a mobility interpolated between two
\* sample points at the stored potential of the first temperature.
C3_Witness ==
    /\ call.op = "get_mobility_mu"
    /\ call.args.ef = None
    /\ call.args.itemp = 0
    /\ CallReader.path = <<"good", "A">>
    /\ IsOk(call.res)
    /\ \A w \in DOMAIN CallStored.edos_mesh : CallStored.edos_mesh[w] # StoredMu[1]

\* What read_mobility returns for the arguments of the last call.
CallSlice ==
    read_mobility(CallReader, call.args.eh, call.args.itemp, call.args.component,
                  call.args.spin, call.args.irta)

\* C4: for every index k of the energy mesh read_mobility returns,
\* get_mobility_mu with ef equal to the k-th sample point returns exactly the
\* k-th value of the mobility slice read_mobility returns for the same
\* arguments.
C4_ExactAtSamplePoints ==
    (/\ call.op = "get_mobility_mu"
     /\ call.args.ef # None
     /\ IsOk(CallSlice)) =>
        \A k \in DOMAIN CallSlice.val.emesh :
            CallSlice.val.emesh[k] = call.args.ef[1] =>
                call.res = Ok(CallSlice.val.mobility[k])

\* C4 witness: the mobility was asked at the second of three sample points.
C4_Witness ==
    /\ call.op = "get_mobility_mu"
    /\ call.args.ef # None
    /\ IsOk(CallSlice)
    /\ ALen(CallSlice.val.emesh) = 3
    /\ CallSlice.val.emesh[1] = call.args.ef[1]
    /\ IsOk(call.res)

\* The potential the last get_mobility_mu call interpolates at: the argument
\* ef, or the stored chemical potential when ef is omitted.
CallEf == IF call.args.ef # None THEN call.args.ef ELSE StoredMu

\* The potential lies strictly below the minimum or strictly above the
\* maximum of the mesh.
OutsideMesh(mesh, e) ==
    \/ \A k \in DOMAIN mesh : e < mesh[k]
    \/ \A k \in DOMAIN mesh : e > mesh[k]

\* C5: get_mobility_mu with ef strictly below the minimum or strictly above
\* the maximum of the energy mesh read_mobility returns fails with a domain
\* error and returns no value, also when ef is omitted and the stored
\* chemical potential lies outside the mesh.
C5_NoExtrapolation ==
    (/\ call.op = "get_mobility_mu"
     /\ CallReader.handle = "open"
     /\ CallEf # None
     /\ OutsideMesh(CallStored.edos_mesh, CallEf[1])) =>
        /\ ~IsOk(call.res)
        /\ IsOk(CallSlice) => call.res = Err("DomainError")

\* C5 witness: ef was omitted, the stored potential lies above the mesh, and
\* the call failed with a domain error.
C5_Witness ==
    /\ call.op = "get_mobility_mu"
    /\ call.args.ef = None
    /\ StoredMu # None
    /\ \A k \in DOMAIN CallStored.edos_mesh : StoredMu[1] > CallStored.edos_mesh[k]
    /\ call.res = Err("DomainError")

\* C6 (as claimed): read_mobility and get_mobility_mu fail with an index
\* error whenever one of irta, spin, eh, itemp is outside 0 .. size - 1 of its
\* dimension, negative values included; no slice or value is returned.
C6_IndexErrorOutsideRange ==
    (/\ call.op \in {"read_mobility", "get_mobility_mu"}
     /\ CallReader.handle = "open"
     /\ ~IndicesInRange) =>
        call.res = Err("IndexError")

\* The accessors that read from the file at every call.
FileReads == {"get_mobility_mu", "read_mobility", "read_value"}

\* The accessors that answer from what the reader kept at construction.
CachedReads == {"tmesh", "ntemp"}

\* The lazily cached accessors.
LazyReads == {"ebands", "structure", "params"}

\* A handle leaves the state Open only by close(), and never leaves Closed.
CloseIsOneWay ==
    \A f \in Files :
        /\ reader[f].handle = "closed" => reader'[f].handle = "closed"
        /\ (reader[f].handle = "open" /\ reader'[f].handle # "open") =>
                /\ call'.op = "close" /\ call'.file = f
                /\ reader'[f].handle = "closed"

C9_NoHandleLeftOpen ==
    \A f \in Files : rtafile[f].state = "failed" => reader[f].handle # "open"

\* C10: no operation on a constructed RtaFile changes nrta, vb_max_spin,
\* cb_min_spin, edos_mesh_eV or tmesh, and a lazily cached ebands or params,
\* once computed, is kept and is the value every later access returns.
C10_ReadOnly ==
    [][\A f \in Files :
        rtafile[f].state = "live" =>
            /\ rtafile'[f].nrta = rtafile[f].nrta
            /\ rtafile'[f].vb_max_spin = rtafile[f].vb_max_spin
            /\ rtafile'[f].cb_min_spin = rtafile[f].cb_min_spin
            /\ rtafile'[f].edos_mesh_eV = rtafile[f].edos_mesh_eV
            /\ reader'[f].tmesh = reader[f].tmesh
            /\ rtafile[f].ebands # None =>
                /\ rtafile'[f].ebands = rtafile[f].ebands
                /\ (call'.op = "ebands" /\ call'.file = f) =>
                        call'.res = Ok(rtafile[f].ebands[1])
            /\ rtafile[f].params # None =>
                /\ rtafile'[f].params = rtafile[f].params
                /\ (call'.op = "params" /\ call'.file = f) =>
                        call'.res = Ok(rtafile[f].params[1])]_vars

\* C10 witness: ebands returned the object cached before the parameters were
\* computed, with every loaded value as read from the file.
C10_Witness ==
    /\ call.op = "ebands"
    /\ IsOk(call.res)
    /\ call.res.val.id = 1
    /\ nobjs = 2
    /\ rtafile[call.file].params # None
    /\ rtafile[call.file].edos_mesh_eV = ArrHaToEV(CallStored.edos_mesh)

\* ------------------------------------------------------- claims: RtaRobot

\* plot_mobility_conv was called and its loop ran to the end, so that the
\* list was sorted.
ConvSorted == conv.op = "plot_mobility_conv" /\ conv.res # None

\* The pair plot_mobility_conv is documented to collect from member m on the
\* last call: kptrlatt[0, 0] and mobility_mu[irta = 0, spin, itemp, j, i, eh].
MemberPair(m) ==
    <<m.kptrlatt[<<0, 0>>],
      m.mobility_mu[<<0, conv.args.spin, conv.args.itemp,
                      AxisIndex(conv.args.component[2]),
                      AxisIndex(conv.args.component[1]), conv.args.eh>>]>>

\* The orders in which a list of n items can be rearranged.
Permutations1(n) ==
    {pi \in [1 .. n -> 1 .. n] : \A k, l \in 1 .. n : pi[k] = pi[l] => k = l}

\* C11: after sorting, the list of (sort key, value) pairs collected by
\* plot_mobility_conv is in ascending order of the sort key kptrlatt[0, 0],
\* and pairs with equal sort keys keep the relative order their members have
\* in the robot.
C11_SortedStable ==
    ConvSorted =>
        LET s == conv.res[1]
            n == Len(abifiles)
        IN  /\ \A k, l \in 1 .. Len(s) : k < l => s[k][1] <= s[l][1]
            /\ \E pi \in Permutations1(n) :
                /\ Len(s) = n
                /\ \A k \in 1 .. n : s[k] = MemberPair(abifiles[pi[k]])
                /\ \A k, l \in 1 .. n :
                    (k < l /\ s[k][1] = s[l][1]) => pi[k] < pi[l]

\* Three members were collected, the sort had to move one, and two members
\* with the same grid hold different values.
C11_Witness ==
    /\ ConvSorted
    /\ Len(conv.res[1]) = 3
    /\ \E n, m \in 1 .. 3 :
        n < m /\ MemberPair(abifiles[n])[1] > MemberPair(abifiles[m])[1]
    /\ \E n, m \in 1 .. 3 :
        /\ n < m
        /\ MemberPair(abifiles[n])[1] = MemberPair(abifiles[m])[1]
        /\ MemberPair(abifiles[n])[2] # MemberPair(abifiles[m])[2]

\* C12: the sorted list holds one pair per member, each pair made of the sort
\* key and the mobility value of the same member, none dropped, none repeated:
\* every pair occurs in the list as often as there are members it comes from.
C12_OnePairPerMember ==
    ConvSorted =>
        LET s == conv.res[1]
            members == 1 .. Len(abifiles)
            pairs == {s[k] : k \in 1 .. Len(s)}
                        \cup {MemberPair(abifiles[n]) : n \in members}
        IN  /\ Len(s) = Len(abifiles)
            /\ \A p \in pairs :
                Cardinality({k \in 1 .. Len(s) : s[k] = p})
                    = Cardinality({n \in members : MemberPair(abifiles[n]) = p})

\* Three members were collected, two of them with the same grid, on a call for
\* holes and an off-diagonal component.
C12_Witness ==
    /\ ConvSorted
    /\ Len(abifiles) = 3
    /\ conv.args.eh = 1
    /\ conv.args.component = <<"x", "y">>
    /\ abifiles[1].kptrlatt = abifiles[3].kptrlatt
    /\ abifiles[1].kptrlatt # abifiles[2].kptrlatt
    /\ conv.out = Ok("figure")

\* The first member whose file lacks an array plot_mobility_conv reads.
FirstLacking ==
    CHOOSE n \in 1 .. Len(abifiles) :
        /\ abifiles[n].absent # {}
        /\ \A m \in 1 .. n - 1 : abifiles[m].absent = {}

\* C13: when a member lacks 'kptrlatt' or 'mobility_mu', plot_mobility_conv
\* (called with indices inside the stored dimensions) fails with a schema
\* error that names the label of that member.
C13_SchemaErrorNamesLabel ==
    (/\ conv.op = "plot_mobility_conv"
     /\ conv.args.eh \in 0 .. 1
     /\ conv.args.itemp = 0
     /\ \E n \in 1 .. Len(abifiles) : abifiles[n].absent # {})
        => /\ conv.out.kind = "SchemaError"
           /\ abifiles[FirstLacking].label \in conv.out.val

\* --------------------------------------------------- claims: two instances

\* C14: two RtaFile instances share no mutable state: whatever operation is
\* called on one of them (construction, a read accessor, a lazily cached
\* property, close), the attributes, the caches, the reader and the file
\* handle of the other are what they were before, so that an open one stays
\* open and answers from the same state.
C14_InstancesIsolated ==
    [][\A f, g \in PairFiles :
        (f # g /\ call'.op # "none" /\ call'.file = f)
            => /\ rtafile'[g] = rtafile[g]
               /\ reader'[g] = reader[g]]_vars

\* Both files were constructed on the same path; the first cached its bands
\* and was closed, and the second, still open and without cached bands, has
\* just answered a query.
C14_Witness ==
    /\ rtafile[1].state = "live" /\ rtafile[2].state = "live"
    /\ reader[1].path = reader[2].path
    /\ reader[1].handle = "closed"
    /\ rtafile[1].ebands # None
    /\ reader[2].handle = "open"
    /\ rtafile[2].ebands = None
    /\ call.file = 2 /\ call.op = "get_mobility_mu" /\ IsOk(call.res)

\* ------------------------------------------------- claims: temperature mesh

\* The stored 'kTmesh' of the file RtaFile f was constructed on.
StoredKT(f) == Disk[reader[f].path].vars.kTmesh

\* C15: in every state of an open RtaFile, tmesh has one entry per stored
\* kTmesh entry, in the same order, each the stored value divided by kb_HaK;
\* ntemp returns the length of tmesh and tmesh returns that mesh; and no
\* operation changes the mesh of a constructed file.
C15_TmeshDerived ==
    /\ [](\A f \in Files :
            (rtafile[f].state = "live" /\ reader[f].handle = "open")
                => /\ DOMAIN reader[f].tmesh = DOMAIN StoredKT(f)
                   /\ \A k \in DOMAIN StoredKT(f) :
                        reader[f].tmesh[k] = DivKb(StoredKT(f)[k])
                   /\ (call.file = f /\ call.op = "ntemp")
                        => call.res = Ok(Cardinality(DOMAIN reader[f].tmesh))
                   /\ (call.file = f /\ call.op = "tmesh")
                        => call.res = Ok(reader[f].tmesh))
    /\ [][\A f \in Files :
            rtafile[f].state = "live" => reader'[f].tmesh = reader[f].tmesh]_vars

\* ntemp has answered 2 on an open file whose bands and parameters were read
\* and cached before.
C15_Witness ==
    /\ rtafile[1].state = "live"
    /\ reader[1].handle = "open"
    /\ rtafile[1].params # None
    /\ call.op = "ntemp"
    /\ call.res = Ok(2)
    /\ reader[1].tmesh # StoredKT(1)

\* ------------------------------------------------ claims: labels and styles

\* The last call was style_for_irta with irta 0 or 1.
StyleCall == call.op = "style_for_irta" /\ call.args[1] \in {0, 1}

\* The statement of C16 on the style: style_for_irta returns, for 0 and for 1,
\* a display style made of a line width, a line style and a marker.
C16_StyleHasMarker ==
    StyleCall =>
        /\ IsOk(call.res)
        /\ DOMAIN call.res.val = {"linewidth", "linestyle", "marker"}

\* C16: eh2s maps 0 to "n" and 1 to "p"; irta2s maps 0 to "SERTA" and 1 to
\* "MRTA"; style_for_irta returns for 0 and for 1 a display style with a line
\* width and a line style (dotted for 0, solid for 1), and with a marker
\* exactly when with_marker is true; each of the three fails for every other
\* integer.
C16_LabelsAndStyles ==
    /\ call.op = "eh2s" =>
        CASE call.args[1] = 0 -> call.res = Ok("n")
          [] call.args[1] = 1 -> call.res = Ok("p")
          [] OTHER -> ~IsOk(call.res)
    /\ call.op = "irta2s" =>
        CASE call.args[1] = 0 -> call.res = Ok("SERTA")
          [] call.args[1] = 1 -> call.res = Ok("MRTA")
          [] OTHER -> ~IsOk(call.res)
    /\ StyleCall =>
        /\ IsOk(call.res)
        /\ {"linewidth", "linestyle"} \subseteq DOMAIN call.res.val
        /\ call.res.val.linestyle
            = (IF call.args[1] = 0 THEN "dotted" ELSE "solid")
        /\ ("marker" \in DOMAIN call.res.val) <=> call.args[2]
    /\ (call.op = "style_for_irta" /\ ~StyleCall) => ~IsOk(call.res)

\* style_for_irta(1), called without with_marker, has returned the solid
\* style without a marker.
C16_Witness ==
    /\ call.op = "style_for_irta"
    /\ call.args = <<1, FALSE>>
    /\ call.res = Ok([linewidth |-> Fx, linestyle |-> "solid"])

\* -------------------------------------------------- claims: BenchmarkFlow

\* Task t is S_OK and its node id is not in the exclusion set.
Benchmarked(t) ==
    flow.status[t] = "S_OK" /\ TaskNodeId(t) \notin ExcludeSet(flow)

\* C17: get_parser passes to parse_timing exactly the node ids of the tasks of
\* the flow that are S_OK and not excluded, each once, in the order in which
\* the flow iterates over its tasks; an excluded task or a task that is not
\* S_OK is never passed.
C17_ParserNids ==
    fcall.op = "get_parser" =>
        LET nids == fcall.passed
        IN  /\ \A k \in 1 .. Len(nids) :
                \E t \in FlowTasks : Benchmarked(t) /\ nids[k] = TaskNodeId(t)
            /\ \A t \in FlowTasks :
                Benchmarked(t) => \E k \in 1 .. Len(nids) : nids[k] = TaskNodeId(t)
            /\ \A k, l \in 1 .. Len(nids) : nids[k] = nids[l] => k = l
            /\ \A t, u \in FlowTasks, k, l \in 1 .. Len(nids) :
                (nids[k] = TaskNodeId(t) /\ nids[l] = TaskNodeId(u) /\ t < u)
                    => k < l

\* get_parser passed two node ids, in the order of iteration, of a flow in
\* which one S_OK task is excluded and all tasks are S_OK.
C17_Witness ==
    /\ fcall.op = "get_parser"
    /\ Len(fcall.passed) = 2
    /\ fcall.passed[1] > fcall.passed[2]
    /\ \A t \in FlowTasks : flow.status[t] = "S_OK"
    /\ \E t \in FlowTasks : TaskNodeId(t) \in ExcludeSet(flow)

\* The node ids of the tasks a node passed to exclude_from_benchmark stands
\* for: the tasks of a work, or the task itself.
TaskIdsOf(node) ==
    CASE node.kind = "work" -> node.tasks
      [] node.kind = "task" -> {node.node_id}
      [] OTHER -> {}

\* C18: exclude_nodeids is empty before the first call of
\* exclude_from_benchmark; every call adds to it the node id of the task
\* passed, or the node ids of all tasks of the work passed, and removes
\* nothing, so that the set is the union over all calls made; reading it, and
\* every other operation, leaves it as it is, and a read returns it.
C18_ExclusionAccumulates ==
    /\ ExcludeSet(flow) = {}
    /\ [][/\ fcall'.op = "exclude_from_benchmark"
            => ExcludeSet(flow') = ExcludeSet(flow) \cup TaskIdsOf(fcall'.args[1])
          /\ fcall'.op # "exclude_from_benchmark"
            => ExcludeSet(flow') = ExcludeSet(flow)
          /\ fcall'.op = "exclude_nodeids"
            => fcall'.res = Ok(ExcludeSet(flow))]_vars

\* After a work and then a task of another work were passed, a read returns
\* the node ids of the three tasks.
C18_Witness ==
    /\ fcall.op = "exclude_nodeids"
    /\ fcall.res = Ok({TaskNodeId(1), TaskNodeId(2), TaskNodeId(3)})

\* ----------------------------------------------------- claims: bench_main

\* C19: options.accept_mpi_omp(mpi_procs, omp_threads) returns True exactly
\* when min_ncpus <= mpi_procs * omp_threads and max_ncpus is None or
\* mpi_procs * omp_threads <= max_ncpus, and False otherwise; the call leaves
\* options as they are.
C19_AcceptMpiOmp ==
    [][(bench.pc = "main" /\ bench.accept = None /\ bench'.accept # None)
        => LET a == bench'.accept[1]
               o == bench.options
               total == a.mpi_procs * a.omp_threads
           IN  /\ a.res \in BOOLEAN
               /\ a.res <=> /\ o.min_ncpus <= total
                            /\ \/ o.max_ncpus = None
                               \/ total <= o.max_ncpus[1]
               /\ bench'.options = o]_vars

\* accept_mpi_omp has accepted 2 x 4 = 8 CPUs, above the limit of 4 the
\* command line gave, after the limit was set to None.
C19_Witness ==
    /\ bench.pc = "main"
    /\ bench.options.min_ncpus = 4
    /\ bench.options.max_ncpus = None
    /\ bench.accept = Some([mpi_procs |-> 4, omp_threads |-> 2, res |-> TRUE])

\* The wrapper has returned (it did not raise).
Completed == bench.pc = "done" /\ IsOk(bench.ret[1])

\* C20: the decorated main is called at most once, and only when the value of
\* --loglevel names an integer level of the logging module (otherwise the
\* wrapper raises ValueError and main is never called); a scheduler is started
\* only if main returned a flow and --scheduler was given, and the wrapper then
\* returns what the scheduler's start() returned; every other run that
\* completes returns 0.
C20_WrapperProtocol ==
    LET valid == Upper(bench.options.loglevel) \in {"DEBUG", "ERROR"}
    IN  /\ bench.main_calls <= 1
        /\ bench.main_calls = 1 => valid
        /\ (~valid /\ bench.pc = "done")
            => bench.ret = Some(Err("ValueError")) /\ bench.main_calls = 0
        /\ bench.scheduler_started
            => /\ bench.main_calls = 1
               /\ bench.flow # None
               /\ bench.options.scheduler
        /\ Completed =>
            /\ bench.main_calls = 1
            /\ bench.ret[1].val = IF bench.scheduler_started
                                  THEN bench.scheduler_result[1]
                                  ELSE 0
            /\ bench.scheduler_started
                <=> (bench.flow # None /\ bench.options.scheduler)

\* The wrapper has returned 1, the value the scheduler returned, on a command
\* line with --loglevel=debug and --scheduler.
C20_Witness ==
    /\ Completed
    /\ bench.options.loglevel = "debug"
    /\ bench.options.scheduler
    /\ bench.scheduler_started
    /\ bench.ret = Some(Ok(1))

\* ------------------------------------------------ claims: variable database

\* C21: get_abinit_variables is a lazy singleton: no VariableDatabase exists
\* before the first call; at most one is ever constructed, and by the first
\* call; every call that returns, returns that one instance, which is the one
\* the module global holds; and no call, get_var and abinit_help included,
\* changes the contents of a database.
C21_LazySingleton ==
    /\ [](lessons.state = "imported" =>
            /\ Len(lessons.objects) <= 1
            /\ lessons.ncalls = 0
                => lessons.objects = <<>> /\ lessons.VARS_DATABASE = None
            /\ \A id \in 1 .. Len(lessons.objects) : lessons.objects[id].born = 1
            /\ (lessons.call.op = "get_abinit_variables" /\ IsOk(lessons.call.res))
                => /\ Len(lessons.objects) = 1
                   /\ lessons.call.res.val = 1
                   /\ lessons.VARS_DATABASE = Some(1))
    /\ [][lessons.state = "imported" =>
            \A id \in 1 .. Len(lessons.objects) :
                /\ id <= Len(lessons'.objects)
                /\ lessons'.objects[id].all_vars = lessons.objects[id].all_vars]_vars

\* The third call of get_abinit_variables, made by abinit_help, has found the
\* one database the first call constructed, and the help was printed.
C21_Witness ==
    /\ lessons.state = "imported"
    /\ lessons.ncalls = 3
    /\ Len(lessons.objects) = 1
    /\ lessons.call.op = "abinit_help"
    /\ IsOk(lessons.call.res)

====
